---- MODULE Spec2Model ----
(***************************************************************************)
(* A model of the resource-acquisition core of anyCrawler:                 *)
(*   - the identity registry   (Crawlee/util/random_id_factory.py),        *)
(*   - the path resolver       (Crawlee/processor/file_processor.py),      *)
(*   - the batch downloader    (Crawlee/processor/file_processor.py,       *)
(*                              Crawlee/processor/pdf_processor.py,        *)
(*                              Crawlee/crawlee_app.py: download_urls).    *)
(* SpecRegistry runs the registry alone; SpecPool runs a batch with an     *)
(* arbitrary worker, SpecDownload a batch with the download workers and    *)
(* SpecRerun two such batches one after the other.                         *)
(***************************************************************************)
EXTENDS Integers, Sequences, FiniteSets, TLC

VARIABLES
    \* ---- identity registry (RandomIDFactory)
    url_to_uuid,    \* self.url_to_uuid : url -> id, NoId when the key is absent
    metadata,       \* self.metadata    : id -> FileMetadata, NoRecord when absent
    sha,            \* the digest function in use, fixed for a whole behaviour
    now,            \* asyncio.get_running_loop().time(), a monotonic clock
    call,           \* the last registerfilemetadata call: its url and its outcome
    first,          \* history: the record the first successful call for a url returned
    \* ---- batch downloader (FileProcessor / PDFProcessor, download_urls)
    kind,           \* which batch runs: "generic", "file" or "pdf" (see Kinds)
    urls,           \* the urls argument: the list of items
    max_workers,    \* self.max_workers
    denied,         \* the directory os.makedirs cannot create, NoPath when none
    rerun,          \* FALSE in the first run of the batch, TRUE in the second
    main_pc,        \* where the caller's thread is in the batch call
    submitted,      \* how many items the submission loop has gone through
    collected,      \* the futures as_completed has yielded so far
    results,        \* successful_processed / successful_downloads
    task,           \* per item: the future and the worker running it
    fs,             \* the directory entries: path -> inode, NoFile when absent
    data,           \* the content of every inode
    download_lock,  \* PDFProcessor.download_lock: the item holding it, 0 when free
    existed,        \* history: the files (inode, content) on disk when this run started
    \* ---- crawl (CrawlerApp)
    crawl_pc,       \* where main() is: "idle", "crawl" (app.run), "scheduled"
    crawled_count,  \* self.crawled_count
    max_pages,      \* self.max_pages (MAX_PAGES of the environment)
    max_depth,      \* self.max_depth (MAX_DEPTH of the environment)
    pdf_urls,       \* the keys of self.pdf_urls
    img_urls,       \* the keys of self.img_urls
    req,            \* the request of every page URL: its state in the queue or in the
                    \* handler, its userData depth, and the soup while it is handled
    transformed,    \* history: the transform_request calls of the last enqueue_links
    scheduled,      \* history: how many batches of main() each resource URL was given to
    \* ---- the caller of a batch (download_urls)
    session,        \* processor.session: "open" or "closed" ("none": no processor)
    caller_pc,      \* download_urls: "idle", "batch", "ended" (returned), "failed" (raised)
    \* ---- staging and upload (main, send_to_rag)
    files,          \* the PDF files under DATA_DIRECTORY: place -> content, NoDoc when absent
    rag_pc,         \* "idle", "main" (main() runs), "stage", "loop" (send_to_rag), "end"
    run,            \* which of the two main()/send_to_rag rounds of __main__ this is
    targets,        \* target_pdfs, the list send_to_rag iterates over
    idx,            \* the index of the next element of target_pdfs
    reported,       \* history: the paths printed as written to RAG by this send_to_rag
    pending,        \* history: the files whose upload failed, and at the end of
                    \* send_to_rag those of them that are still where they were
    \* ---- calls of the path resolver (get_save_path_from_url)
    resolved,       \* history: the calls made, each as <<url, the path returned>>
    made,           \* the directories os.makedirs has created
    \* ---- request handlers in flight on the event loop (request_handler)
    handler,        \* of every handler: where it is, its request's URL, the record
                    \* registerfilemetadata returned to it
    \* ---- the markup rewritten by url_formater
    markup,         \* history: of every rewritten link the page, the link, the local
                    \* path put in its place and the absolute URL collected for it
    \* ---- the calls of file_download, followed with their progress reports
    fd,             \* of every call: where it is, total_size, downloaded_size, the
                    \* progress_callback calls made so far, and what it returned
    \* ---- the batches of main()
    stage           \* the last batch main() has started: 0 none, 1 the PDF batch,
                    \* 2 the image batch, 3 the HTML output batch

regVars == <<url_to_uuid, metadata, sha, now, call, first>>

batchVars == <<kind, urls, max_workers, denied, rerun, main_pc, submitted, collected,
               results, task, fs, data, download_lock, existed>>

crawlVars == <<crawl_pc, crawled_count, max_pages, max_depth, pdf_urls, img_urls, req, transformed, scheduled>>

\* the state of the parts that the registry and the batch downloader do not touch
sessVars == <<session, caller_pc>>

ragVars == <<files, rag_pc, run, targets, idx, reported, pending>>

pathVars == <<resolved, made>>

loopVars == <<handler>>

fmtVars == <<markup>>

progVars == <<fd>>

mainVars == <<stage>>

auxVars == <<crawlVars, sessVars, ragVars, pathVars, loopVars, fmtVars, progVars, mainVars>>
\* all but the state of the crawl, of the caller, of the staging, of the resolver
notCrawl == <<regVars, batchVars, sessVars, ragVars, pathVars, loopVars, fmtVars, progVars, mainVars>>
notSess == <<regVars, batchVars, crawlVars, ragVars, pathVars, loopVars, fmtVars, progVars, mainVars>>
notRag == <<regVars, batchVars, crawlVars, sessVars, pathVars, loopVars, fmtVars, progVars, mainVars>>
notPath == <<regVars, batchVars, crawlVars, sessVars, ragVars, loopVars, fmtVars, progVars, mainVars>>

vars == <<regVars, batchVars, auxVars>>

\* no CrawlerApp was made yet
CrawlIdle ==
    /\ crawl_pc = "idle"
    /\ crawled_count = 0
    /\ max_pages = 0
    /\ max_depth = 0
    /\ pdf_urls = {}
    /\ img_urls = {}
    /\ req = <<>>
    /\ transformed = {}
    /\ scheduled = <<>>

\* no FileProcessor was made yet
SessIdle ==
    /\ session = "none"
    /\ caller_pc = "idle"

\* nothing is staged
RagIdle ==
    /\ files = <<>>
    /\ rag_pc = "idle"
    /\ run = 0
    /\ targets = <<>>
    /\ idx = 0
    /\ reported = {}
    /\ pending = {}

\* the resolver was not called yet
PathIdle ==
    /\ resolved = {}
    /\ made = {}

\* no handler was started yet
LoopIdle == handler = <<>>

\* no page was rewritten yet
FmtIdle == markup = {}

\* file_download was not called yet
ProgIdle == fd = <<>>

\* main() has started no batch
MainIdle == stage = 0

AuxIdle == CrawlIdle /\ SessIdle /\ RagIdle /\ PathIdle /\ LoopIdle /\ FmtIdle /\ ProgIdle /\ MainIdle

----------------------------------------------------------------------------
(* Bounds *)

\* the digest truncated to 128 bits, modelled with a range this small so that
\* collisions are ordinary
NumUuids == 2
\* the clock stops advancing here
MaxTime == 1
\* the longest list of items a batch is given
MaxItems == 2
\* the longest list of items of a batch that is run twice
RerunItems == 1
\* the number of chunks iter_content delivers for one body
NumChunks == 2

\* the number of PDF documents a run can leave under the domain directories
NumDocs == 2
\* the number of calls of the path resolver that are followed
MaxCalls == 2
\* the number of request handlers in flight
NumHandlers == 2
\* the number of pages of the site that is crawled
NumPages == 2
\* the largest depth cap a run is configured with
MaxDepth == 2

(* Program constants *)
max_retries == 10
\* FileProcessor(max_workers=10), the pool width main() uses
DefaultWorkers == 10

----------------------------------------------------------------------------
(* Strings are sequences of characters; a character is a one-letter string, *)
(* or the name of a code point where the letter is not ASCII.               *)

\* characters that Python's \w matches in a str pattern: letters and digits of
\* any script, and the underscore
WordChars ==
    { "a", "b", "c", "d", "e", "f", "g", "h", "i", "j", "k", "l", "m", "n", "o", "p", "q",
      "r", "s", "t", "u", "v", "w", "x", "y", "z", "A", "Z", "0", "1", "2", "8", "9", "_",
      "U+00E9", "U+4E2D" }

\* s.strip("/")
Strip(s) ==
    LET RECURSIVE lead(_)
        lead(i) == IF i <= Len(s) /\ s[i] = "/" THEN lead(i + 1) ELSE i
        RECURSIVE trail(_)
        trail(j) == IF j >= 1 /\ s[j] = "/" THEN trail(j - 1) ELSE j
    IN  IF lead(1) > Len(s) THEN <<>> ELSE SubSeq(s, lead(1), trail(Len(s)))

\* s.split("/"): one more part than there are separators, empty parts kept
Split(s) ==
    LET RECURSIVE go(_, _)
        go(i, cur) ==
            IF i > Len(s) THEN <<cur>>
            ELSE IF s[i] = "/" THEN <<cur>> \o go(i + 1, <<>>)
            ELSE go(i + 1, Append(cur, s[i]))
    IN  go(1, <<>>)

\* "." in s
HasDot(s) == \E i \in 1 .. Len(s) : s[i] = "."

\* the position of the last "." of s (s.rsplit(".", 1) splits there)
LastDot(s) == CHOOSE i \in 1 .. Len(s) : s[i] = "." /\ \A j \in (i + 1) .. Len(s) : s[j] # "."

\* os.path.join(a, b) of posixpath
PathJoin(a, b) ==
    IF Len(b) > 0 /\ b[1] = "/" THEN b
    ELSE IF Len(a) = 0 \/ a[Len(a)] = "/" THEN a \o b
    ELSE a \o <<"/">> \o b

\* os.path.join(a, *parts)
PathJoinAll(a, parts) ==
    LET RECURSIVE go(_, _)
        go(acc, i) == IF i > Len(parts) THEN acc ELSE go(PathJoin(acc, parts[i]), i + 1)
    IN  go(a, 1)

----------------------------------------------------------------------------
(* URLs.  A URL is kept as urlparse splits it; two URLs are the same string *)
(* exactly when the records are equal.                                      *)

Url(scheme, netloc, path, query) ==
    [scheme |-> scheme, netloc |-> netloc, path |-> path, query |-> query]

HostA == <<"a", ".", "t">>

\* the URLs the registry is exercised with: three pages of one host, which
\* is where candidate ids can collide (ids are namespaced by the host)
RegUrls ==
    { Url("https", HostA, <<"/", "x">>, <<>>),
      Url("https", HostA, <<"/", "y">>, <<>>),
      Url("https", HostA, <<"/", "z">>, <<>>) }

get_root_domain_from_url(url) == url.netloc

----------------------------------------------------------------------------
(* Path resolver *)

\* re.sub(r"[^\w.-]", "_", name)
sanitize_name(name) ==
    [i \in 1 .. Len(name) |->
        IF name[i] \in WordChars \/ name[i] = "." \/ name[i] = "-" THEN name[i] ELSE "_"]

\* lines 37-45: the directory parts and the file name taken from the URL's path
SplitPath(url, filler) ==
    LET path_parts == Split(Strip(url.path))
        last == path_parts[Len(path_parts)]
    IN  IF HasDot(last)
        THEN [parts |-> SubSeq(path_parts, 1, Len(path_parts) - 1), filename |-> last]
        ELSE [parts |-> path_parts, filename |-> filler]

\* lines 51-56
SanitizeFilename(filename) ==
    IF HasDot(filename)
    THEN sanitize_name(SubSeq(filename, 1, LastDot(filename) - 1))
            \o <<".">> \o sanitize_name(SubSeq(filename, LastDot(filename) + 1, Len(filename)))
    ELSE sanitize_name(filename)

\* lines 47-59: full_dir, the directory os.makedirs creates
SaveDir(url, save_base_path) ==
    LET sp == SplitPath(url, <<"d", "o", "w", "n", "l", "o", "a", "d">>)
    IN  PathJoinAll(save_base_path,
                    <<sanitize_name(url.netloc)>>
                        \o [i \in 1 .. Len(sp.parts) |-> sanitize_name(sp.parts[i])])

\* lines 35-62, the path returned
get_save_path_from_url(url, save_base_path) ==
    LET sp == SplitPath(url, <<"d", "o", "w", "n", "l", "o", "a", "d">>)
    IN  PathJoin(SaveDir(url, save_base_path), SanitizeFilename(sp.filename))

\* PDFProcessor._get_save_path_from_url: nothing is sanitized
pdf_SaveDir(url, save_base_path) ==
    LET sp == SplitPath(url, <<"d", "o", "w", "n", "l", "o", "a", "d", ".", "p", "d", "f">>)
    IN  PathJoinAll(save_base_path, <<url.netloc>> \o sp.parts)

pdf_get_save_path_from_url(url, save_base_path) ==
    LET sp == SplitPath(url, <<"d", "o", "w", "n", "l", "o", "a", "d", ".", "p", "d", "f">>)
    IN  PathJoin(pdf_SaveDir(url, save_base_path), sp.filename)

----------------------------------------------------------------------------
(* Identity registry *)

Uuids == 0 .. (NumUuids - 1)
Nonces == 0 .. max_retries
Ids == { <<d, h>> : d \in { get_root_domain_from_url(u) : u \in RegUrls }, h \in Uuids }
NoId == <<>>
NoRecord == [name |-> NoId]
NoCall == [url |-> "none"]

\* The digests a behaviour may run with.  sha256 is a fixed function of the
\* bytes of url (nonce 0) and of url + "_" + nonce; here it is any member of a
\* family in which every URL has its own base digest and its own stride from
\* one nonce to the next, so that base collisions, chains of collisions and
\* exhaustion all occur.
Digests == [RegUrls -> [base : Uuids, step : Uuids]]

\* uuid.UUID(bytes=sha256(...).digest()[:16]) of url (nonce 0) or url_nonce
Digest(url, nonce) == (sha[url].base + nonce * sha[url].step) % NumUuids

\* str(Path(root_domain) / str(uuid.UUID(...)))
candidate_uuid(url, nonce) == <<get_root_domain_from_url(url), Digest(url, nonce)>>

\* lines 41-44: the record already indexed for url, NoRecord when there is none
ExistingRecord(u2u, md, url) ==
    IF u2u[url] # NoId /\ md[u2u[url]] # NoRecord THEN md[u2u[url]] ELSE NoRecord

Outcome(ok, ret, nonce, u2u, md) ==
    [ok |-> ok, ret |-> ret, nonce |-> nonce, url_to_uuid |-> u2u, metadata |-> md]

\* a plausible slip: the occupied test is dropped, every candidate is taken as free
RECURSIVE ProbeOverwrite(_, _, _, _, _)
ProbeOverwrite(u2u, md, url, t, nonce) ==
    LET c == candidate_uuid(url, nonce)
        entry == [name |-> c, url |-> url, timestamp |-> t]
    IN  Outcome(TRUE, entry, nonce, [u2u EXCEPT ![url] = c], [md EXCEPT ![c] = entry])

\* a plausible slip: a retry does not re-derive the digest from url_nonce and
\* tests the base candidate again
RECURSIVE ProbeNoRederive(_, _, _, _, _)
ProbeNoRederive(u2u, md, url, t, nonce) ==
    IF nonce > max_retries
    THEN Outcome(FALSE, NoRecord, nonce, u2u, md)
    ELSE LET c == candidate_uuid(url, 0)
         IN  IF md[c] # NoRecord
             THEN IF md[c].url = url
                  THEN Outcome(TRUE, md[c], nonce, [u2u EXCEPT ![url] = c], md)
                  ELSE ProbeNoRederive(u2u, md, url, t, nonce + 1)
             ELSE LET entry == [name |-> c, url |-> url, timestamp |-> t]
                  IN  Outcome(TRUE, entry, nonce,
                              [u2u EXCEPT ![url] = c], [md EXCEPT ![c] = entry])

\* a plausible slip: when the retries run out the last candidate is taken anyway
RECURSIVE ProbeTakeLast(_, _, _, _, _)
ProbeTakeLast(u2u, md, url, t, nonce) ==
    LET c == candidate_uuid(url, nonce)
        entry == [name |-> c, url |-> url, timestamp |-> t]
    IN  IF md[c] # NoRecord
        THEN IF md[c].url = url
             THEN Outcome(TRUE, md[c], nonce, [u2u EXCEPT ![url] = c], md)
             ELSE IF nonce = max_retries
                  THEN Outcome(TRUE, entry, nonce,
                               [u2u EXCEPT ![url] = c], [md EXCEPT ![c] = entry])
                  ELSE ProbeTakeLast(u2u, md, url, t, nonce + 1)
        ELSE Outcome(TRUE, entry, nonce,
                     [u2u EXCEPT ![url] = c], [md EXCEPT ![c] = entry])

\* lines 52-81: the collision loop, from attempt nonce on
RECURSIVE Probe(_, _, _, _, _)
Probe(u2u, md, url, t, nonce) ==
    IF nonce > max_retries
    THEN Outcome(FALSE, NoRecord, nonce, u2u, md)                 \* raise RuntimeError
    ELSE LET c == candidate_uuid(url, nonce)
         IN  IF md[c] # NoRecord
             THEN IF md[c].url = url
                  THEN Outcome(TRUE, md[c], nonce, [u2u EXCEPT ![url] = c], md)
                  ELSE Probe(u2u, md, url, t, nonce + 1)
             ELSE LET entry == [name |-> c, url |-> url, timestamp |-> t]
                  IN  Outcome(TRUE, entry, nonce,
                              [u2u EXCEPT ![url] = c], [md EXCEPT ![c] = entry])

\* a plausible slip: the loop starts at nonce 1, range(1, max_retries + 1)
registerfilemetadata_from1(u2u, md, url, t) ==
    IF ExistingRecord(u2u, md, url) # NoRecord
    THEN Outcome(TRUE, ExistingRecord(u2u, md, url), 0, u2u, md)
    ELSE Probe(u2u, md, url, t, 1)

\* a plausible slip: the index is not consulted and a record of the same url is
\* written again, with the time of this call
registerfilemetadata_again(u2u, md, url, t) ==
    LET c == IF u2u[url] # NoId THEN u2u[url] ELSE candidate_uuid(url, 0)
        entry == [name |-> c, url |-> url, timestamp |-> t]
    IN  IF md[c] = NoRecord \/ md[c].url = url
        THEN Outcome(TRUE, entry, 0, [u2u EXCEPT ![url] = c], [md EXCEPT ![c] = entry])
        ELSE Probe(u2u, md, url, t, 1)

\* lines 40-81
registerfilemetadata(u2u, md, url, t) ==
    IF ExistingRecord(u2u, md, url) # NoRecord
    THEN Outcome(TRUE, ExistingRecord(u2u, md, url), 0, u2u, md)
    ELSE Probe(u2u, md, url, t, 0)

RegistryInit ==
    /\ url_to_uuid = [u \in RegUrls |-> NoId]
    /\ metadata = [i \in Ids |-> NoRecord]
    /\ now = 0
    /\ call = NoCall
    /\ first = [u \in RegUrls |-> NoRecord]

\* one call registerfilemetadata(url), returning or raising
Register(url) ==
    LET out == registerfilemetadata(url_to_uuid, metadata, url, now)
    IN  /\ url_to_uuid' = out.url_to_uuid
        /\ metadata' = out.metadata
        /\ call' = [url |-> url, ok |-> out.ok, ret |-> out.ret, nonce |-> out.nonce,
                    known |-> url_to_uuid[url] # NoId]
        /\ first' = IF out.ok /\ first[url] = NoRecord
                    THEN [first EXCEPT ![url] = out.ret]
                    ELSE first
        /\ UNCHANGED <<sha, now, batchVars, auxVars>>

\* time passes between calls
Tick ==
    /\ now < MaxTime
    /\ now' = now + 1
    /\ UNCHANGED <<url_to_uuid, metadata, sha, call, first, batchVars, auxVars>>

----------------------------------------------------------------------------
(* Batch downloader *)

\* "generic": FileProcessor.batch_process_files, save_base_path None, any worker
\* "paths":   FileProcessor.batch_process_files, save_base_path set, any worker
\* "file":    FileProcessor.batch_process_files, save_base_path set, file_download
\* "pdf":     PDFProcessor.download_multiple_pdfs, _download_single_pdf
\* With any worker the batch is given a callable of which only the outcome is
\* known; with file_download and _download_single_pdf the worker is followed
\* step by step.
PoolKinds == {"generic", "paths"}
DownloadKinds == {"file", "pdf"}

\* save_base_path
SaveBase == <<"/", "s">>

\* the URLs a batch is made of: two that differ in the query string only, and
\* one whose last segment has no "."
BatchUrls ==
    { Url("https", HostA, <<"/", "d", "/", "f", ".", "p">>, <<"v", "=", "1">>),
      Url("https", HostA, <<"/", "d", "/", "f", ".", "p">>, <<"v", "=", "2">>),
      Url("https", HostA, <<"/", "g">>, <<>>) }

\* the lists urls can be: up to max distinct URLs, in any order
ItemLists(max) ==
    UNION { { l \in [1 .. n -> BatchUrls] : \A i, j \in 1 .. n : i # j => l[i] # l[j] } :
            n \in 1 .. max }

\* the destination a batch of kind k computes for url, and its directory
Dest(k, url) ==
    IF k = "pdf" THEN pdf_get_save_path_from_url(url, SaveBase)
    ELSE get_save_path_from_url(url, SaveBase)
DestDir(k, url) ==
    IF k = "pdf" THEN pdf_SaveDir(url, SaveBase) ELSE SaveDir(url, SaveBase)

Paths == { Dest(k, u) : k \in DownloadKinds, u \in BatchUrls }
NoPath == <<>>
NoFile == <<>>
\* an inode is named by the run and the item whose open() created it
Inodes == {1, 2} \X (1 .. MaxItems)
\* the body served for item i, chunk by chunk, and a gap left by a write past the end
Body(i) == [k \in 1 .. NumChunks |-> <<i, k>>]
Hole == <<0, 0>>

IdleTask ==
    [pc |-> "none", res |-> "none", written |-> 0, ino |-> NoFile,
     status |-> "none", requested |-> FALSE]

BatchIdle ==
    /\ kind = "none"
    /\ urls = <<>>
    /\ max_workers = DefaultWorkers
    /\ denied = NoPath
    /\ rerun = FALSE
    /\ main_pc = "idle"
    /\ submitted = 0
    /\ collected = {}
    /\ results = <<>>
    /\ task = <<>>
    /\ fs = [p \in Paths |-> NoFile]
    /\ data = [n \in Inodes |-> <<>>]
    /\ download_lock = 0
    /\ existed = [p \in Paths |-> NoFile]

Items == 1 .. Len(urls)
path(i) == Dest(kind, urls[i])
Exists(p) == fs[p] # NoFile
InProgress(i) == task[i].pc \notin {"none", "queued", "done"}

\* the worker's return: the future of item i completes
Done(i, res, status) ==
    [task EXCEPT ![i] = [pc |-> "done", res |-> res, written |-> 0, ino |-> NoFile,
                         status |-> status, requested |-> task[i].requested]]

\* a pool thread takes the oldest queued work item
Start(i) ==
    /\ task[i].pc = "queued"
    /\ \A j \in Items : j < i => task[j].pc # "queued"
    /\ Cardinality({ j \in Items : InProgress(j) }) < max_workers
    /\ task' = [task EXCEPT ![i].pc =
                    IF kind \in PoolKinds THEN "work" ELSE IF kind = "pdf" THEN "lock" ELSE "check"]
    /\ UNCHANGED <<regVars, auxVars, kind, urls, max_workers, denied, rerun, main_pc, submitted, collected,
                   results, fs, data, download_lock, existed>>

\* progress_function(url) or progress_function(url, save_path) of a batch with
\* any worker: it returns something truthy or falsy, or raises
Work(i) ==
    /\ kind \in PoolKinds
    /\ task[i].pc = "work"
    /\ \E res \in {"true", "false", "raised"} :
          task' = Done(i, res, IF res = "true" THEN "completed" ELSE "error")
    /\ UNCHANGED <<regVars, auxVars, kind, urls, max_workers, denied, rerun, main_pc, submitted, collected,
                   results, fs, data, download_lock, existed>>

\* pdf_processor.py line 55: with self.download_lock
Lock(i) ==
    /\ task[i].pc = "lock"
    /\ download_lock = 0
    /\ download_lock' = i
    /\ task' = [task EXCEPT ![i].pc = "check"]
    /\ UNCHANGED <<regVars, auxVars, kind, urls, max_workers, denied, rerun, main_pc, submitted, collected,
                   results, fs, data, existed>>

\* a plausible slip: the existence test is lost and every item is fetched
CheckAlwaysFetch(i) ==
    /\ task[i].pc = "check"
    /\ \/ task' = [task EXCEPT ![i].pc = "open", ![i].requested = TRUE]
       \/ task' = [task EXCEPT ![i].pc = "exc_req", ![i].requested = TRUE,
                               ![i].status = "error"]
    /\ download_lock' = IF kind = "pdf" THEN 0 ELSE download_lock
    /\ UNCHANGED <<regVars, auxVars, kind, urls, max_workers, denied, rerun, main_pc, submitted, collected,
                   results, fs, data, existed>>

\* crawlee_app.py lines 301-313, pdf_processor.py lines 57-74: the existence
\* check and, when there is no file, the request.  The request is answered, or
\* get/raise_for_status raise a RequestException, or reading the headers raises
\* something else (int() of a bad content-length); _download_single_pdf refuses
\* an answer that is not a PDF.  The request touches nothing the other workers
\* see, so it is taken in one step with the check that precedes it.
Check(i) ==
    /\ task[i].pc = "check"
    /\ IF Exists(path(i))
       THEN task' = Done(i, "true", "already_exists")
       ELSE \/ task' = [task EXCEPT ![i].pc = "open", ![i].requested = TRUE]
            \/ task' = [task EXCEPT ![i].pc = "exc_req", ![i].requested = TRUE,
                                    ![i].status = "error"]
            \/ task' = [Done(i, "false", "error") EXCEPT ![i].requested = TRUE]
            \/ /\ kind = "pdf"
               /\ task' = [Done(i, "false", "not_pdf") EXCEPT ![i].requested = TRUE]
    /\ download_lock' = IF kind = "pdf" THEN 0 ELSE download_lock
    /\ UNCHANGED <<regVars, auxVars, kind, urls, max_workers, denied, rerun, main_pc, submitted, collected,
                   results, fs, data, existed>>

\* open(save_path, "wb"): the file is created, or truncated when it is there
OpenFile(i) ==
    /\ task[i].pc = "open"
    /\ LET n == IF Exists(path(i)) THEN fs[path(i)]
                ELSE <<IF rerun THEN 2 ELSE 1, i>>
       IN  /\ fs' = [fs EXCEPT ![path(i)] = n]
           /\ data' = [data EXCEPT ![n] = <<>>]
           /\ task' = [task EXCEPT ![i].pc = "stream", ![i].ino = n]
    /\ UNCHANGED <<regVars, auxVars, kind, urls, max_workers, denied, rerun, main_pc, submitted, collected,
                   results, download_lock, existed>>

\* open() raises OSError: the generic handler returns False
OpenError(i) ==
    /\ task[i].pc = "open"
    /\ task' = Done(i, "false", "error")
    /\ UNCHANGED <<regVars, auxVars, kind, urls, max_workers, denied, rerun, main_pc, submitted, collected,
                   results, fs, data, download_lock, existed>>

\* the content of a file after chunk c is written at position k
PutChunk(content, k, c) ==
    IF k <= Len(content) THEN [content EXCEPT ![k] = c]
    ELSE content \o [j \in 1 .. (k - 1 - Len(content)) |-> Hole] \o <<c>>

\* f.write(chunk), at this handle's own offset, and the progress report
WriteChunk(i) ==
    /\ task[i].pc = "stream"
    /\ task[i].written < NumChunks
    /\ data' = [data EXCEPT ![task[i].ino] =
                    PutChunk(@, task[i].written + 1, Body(i)[task[i].written + 1])]
    /\ task' = [task EXCEPT ![i].written = @ + 1, ![i].status = "downloading"]
    /\ UNCHANGED <<regVars, auxVars, kind, urls, max_workers, denied, rerun, main_pc, submitted, collected,
                   results, fs, download_lock, existed>>

\* iter_content raises a RequestException before the body is complete; the
\* with block closes the file
StreamError(i) ==
    /\ task[i].pc = "stream"
    /\ task[i].written < NumChunks
    /\ task' = [task EXCEPT ![i].pc = "exc_req", ![i].status = "error",
                            ![i].written = 0, ![i].ino = NoFile]
    /\ UNCHANGED <<regVars, auxVars, kind, urls, max_workers, denied, rerun, main_pc, submitted, collected,
                   results, fs, data, download_lock, existed>>

\* f.write raises OSError (disk full, quota): the generic handler returns False
WriteError(i) ==
    /\ task[i].pc = "stream"
    /\ task[i].written < NumChunks
    /\ task' = Done(i, "false", "error")
    /\ UNCHANGED <<regVars, auxVars, kind, urls, max_workers, denied, rerun, main_pc, submitted, collected,
                   results, fs, data, download_lock, existed>>

\* the body is complete: the file is closed, completed is reported, True returned
Finish(i) ==
    /\ task[i].pc = "stream"
    /\ task[i].written = NumChunks
    /\ task' = Done(i, "true", "completed")
    /\ UNCHANGED <<regVars, auxVars, kind, urls, max_workers, denied, rerun, main_pc, submitted, collected,
                   results, fs, data, download_lock, existed>>

\* except RequestException: if os.path.exists(save_path)
ExcRequest(i) ==
    /\ task[i].pc = "exc_req"
    /\ task' = IF Exists(path(i))
               THEN [task EXCEPT ![i].pc = "remove"]
               ELSE Done(i, "false", "error")
    /\ UNCHANGED <<regVars, auxVars, kind, urls, max_workers, denied, rerun, main_pc, submitted, collected,
                   results, fs, data, download_lock, existed>>

\* os.remove(save_path); FileNotFoundError leaves the handler when the file
\* has gone since the test
Remove(i) ==
    /\ task[i].pc = "remove"
    /\ fs' = [fs EXCEPT ![path(i)] = NoFile]
    /\ task' = IF Exists(path(i))
               THEN Done(i, "false", "error")
               ELSE Done(i, "raised", "error")
    /\ UNCHANGED <<regVars, auxVars, kind, urls, max_workers, denied, rerun, main_pc, submitted, collected,
                   results, data, download_lock, existed>>

\* one iteration of the dict comprehension: the destination is computed (its
\* directory made) and the worker submitted; os.makedirs raising ends the loop
Submit ==
    /\ main_pc = "submit"
    /\ LET i == submitted + 1
       IN  IF kind # "generic" /\ DestDir(kind, urls[i]) = denied
           THEN /\ main_pc' = "unwind"
                /\ UNCHANGED <<submitted, task>>
           ELSE /\ submitted' = i
                /\ task' = [task EXCEPT ![i].pc = "queued"]
                /\ main_pc' = IF i = Len(urls) THEN "collect" ELSE "submit"
    /\ UNCHANGED <<regVars, auxVars, kind, urls, max_workers, denied, rerun, collected, results, fs, data,
                   download_lock, existed>>

\* what the batch appends for a successful item
Entry(i) == IF kind = "generic" THEN urls[i] ELSE path(i)

\* a plausible slip: a worker that returns False ends the batch like one that raises
CollectAbortOnFailure(i) ==
    /\ main_pc = "collect"
    /\ i \notin collected
    /\ task[i].pc = "done"
    /\ IF task[i].res # "true"
       THEN /\ main_pc' = "unwind"
            /\ UNCHANGED <<collected, results>>
       ELSE /\ collected' = collected \cup {i}
            /\ results' = Append(results, Entry(i))
            /\ UNCHANGED main_pc
    /\ UNCHANGED <<regVars, auxVars, kind, urls, max_workers, denied, rerun, submitted, task, fs, data,
                   download_lock, existed>>

\* a plausible slip: the list is assigned instead of appended to
CollectAssign(i) ==
    /\ main_pc = "collect"
    /\ i \notin collected
    /\ task[i].pc = "done"
    /\ IF task[i].res = "raised" /\ kind # "pdf"
       THEN /\ main_pc' = "unwind"
            /\ UNCHANGED <<collected, results>>
       ELSE /\ collected' = collected \cup {i}
            /\ results' = IF task[i].res = "true" THEN <<Entry(i)>> ELSE results
            /\ UNCHANGED main_pc
    /\ UNCHANGED <<regVars, auxVars, kind, urls, max_workers, denied, rerun, submitted, task, fs, data,
                   download_lock, existed>>

\* one iteration of the as_completed loop
Collect(i) ==
    /\ main_pc = "collect"
    /\ i \notin collected
    /\ task[i].pc = "done"
    /\ IF task[i].res = "raised" /\ kind # "pdf"
       THEN /\ main_pc' = "unwind"                                   \* raise e
            /\ UNCHANGED <<collected, results>>
       ELSE /\ collected' = collected \cup {i}
            /\ results' = IF task[i].res = "true" THEN Append(results, Entry(i)) ELSE results
            /\ UNCHANGED main_pc
    /\ UNCHANGED <<regVars, auxVars, kind, urls, max_workers, denied, rerun, submitted, task, fs, data,
                   download_lock, existed>>

\* every future was yielded: the with block is left and the list returned
Return ==
    /\ main_pc = "collect"
    /\ collected = Items
    /\ main_pc' = "returned"
    /\ UNCHANGED <<regVars, auxVars, kind, urls, max_workers, denied, rerun, submitted, collected, results,
                   task, fs, data, download_lock, existed>>

\* an exception leaves the with block: shutdown(wait=True) lets every submitted
\* worker finish, then the exception reaches the caller
Unwind ==
    /\ main_pc = "unwind"
    /\ \A i \in Items : task[i].pc \in {"none", "done"}
    /\ main_pc' = "raised"
    /\ UNCHANGED <<regVars, auxVars, kind, urls, max_workers, denied, rerun, submitted, collected, results,
                   task, fs, data, download_lock, existed>>

\* the same batch is run a second time over what the first run left on disk
Rerun ==
    /\ main_pc \in {"returned", "raised"}
    /\ ~rerun
    /\ rerun' = TRUE
    /\ main_pc' = "submit"
    /\ submitted' = 0
    /\ collected' = {}
    /\ results' = <<>>
    /\ task' = [i \in Items |-> IdleTask]
    /\ data' = [n \in Inodes |-> IF \E p \in Paths : fs[p] = n THEN data[n] ELSE <<>>]
    /\ existed' = [p \in Paths |-> IF Exists(p) THEN <<fs[p], data[fs[p]]>> ELSE NoFile]
    /\ UNCHANGED <<regVars, auxVars, kind, urls, max_workers, denied, fs, download_lock>>

RegistryIdle ==
    /\ RegistryInit
    /\ sha = [u \in RegUrls |-> [base |-> 0, step |-> 1]]

BatchInit ==
    /\ RegistryIdle
    /\ AuxIdle
    /\ rerun = FALSE
    /\ main_pc = "submit"
    /\ submitted = 0
    /\ collected = {}
    /\ results = <<>>
    /\ task = [i \in 1 .. Len(urls) |-> IdleTask]
    /\ fs = [p \in Paths |-> NoFile]
    /\ data = [n \in Inodes |-> <<>>]
    /\ download_lock = 0
    /\ existed = [p \in Paths |-> NoFile]

\* batch_process_files with any worker
InitPool ==
    /\ kind \in PoolKinds
    /\ urls \in ItemLists(MaxItems)
    /\ max_workers \in {1, DefaultWorkers}
    /\ denied \in {NoPath} \cup { DestDir(kind, urls[i]) : i \in 1 .. Len(urls) }
    /\ BatchInit

NextPool ==
    \/ Submit
    \/ \E i \in Items : Start(i)
    \/ \E i \in Items : Work(i)
    \/ \E i \in Items : Collect(i)
    \/ Return
    \/ Unwind

SpecPool == InitPool /\ [][NextPool]_vars

\* download_urls (batch_process_files with file_download) and
\* download_multiple_pdfs, every directory writable
InitDownload ==
    /\ kind \in DownloadKinds
    /\ urls \in ItemLists(MaxItems)
    /\ max_workers \in {1, DefaultWorkers}
    /\ denied = NoPath
    /\ BatchInit

NextDownload ==
    \/ Submit
    \/ \E i \in Items : Start(i)
    \/ \E i \in Items : Lock(i)
    \/ \E i \in Items : Check(i)
    \/ \E i \in Items : OpenFile(i)
    \/ \E i \in Items : OpenError(i)
    \/ \E i \in Items : WriteChunk(i)
    \/ \E i \in Items : StreamError(i)
    \/ \E i \in Items : WriteError(i)
    \/ \E i \in Items : Finish(i)
    \/ \E i \in Items : ExcRequest(i)
    \/ \E i \in Items : Remove(i)
    \/ \E i \in Items : Collect(i)
    \/ Return
    \/ Unwind

SpecDownload == InitDownload /\ [][NextDownload]_vars

\* the downloader run twice over the same items
InitRerun ==
    /\ kind \in DownloadKinds
    /\ urls \in ItemLists(RerunItems)
    /\ max_workers = DefaultWorkers
    /\ denied \in {NoPath} \cup { DestDir(kind, urls[i]) : i \in 1 .. Len(urls) }
    /\ BatchInit

NextRerun ==
    \/ Submit
    \/ \E i \in Items : Start(i)
    \/ \E i \in Items : Lock(i)
    \/ \E i \in Items : Check(i)
    \/ \E i \in Items : OpenFile(i)
    \/ \E i \in Items : OpenError(i)
    \/ \E i \in Items : WriteChunk(i)
    \/ \E i \in Items : StreamError(i)
    \/ \E i \in Items : WriteError(i)
    \/ \E i \in Items : Finish(i)
    \/ \E i \in Items : ExcRequest(i)
    \/ \E i \in Items : Remove(i)
    \/ \E i \in Items : Collect(i)
    \/ Return
    \/ Unwind
    \/ Rerun

SpecRerun == InitRerun /\ [][NextRerun]_vars

InitRegistry ==
    /\ RegistryInit
    /\ sha \in Digests
    /\ BatchIdle
    /\ AuxIdle

NextRegistry ==
    \/ \E url \in RegUrls : Register(url)
    \/ Tick

SpecRegistry == InitRegistry /\ [][NextRegistry]_vars

----------------------------------------------------------------------------
(* Properties of the identity registry, checked under SpecRegistry *)

IsIndexed(url) == url_to_uuid[url] # NoId
HeldByOther(url, nonce) ==
    /\ metadata[candidate_uuid(url, nonce)] # NoRecord
    /\ metadata[candidate_uuid(url, nonce)].url # url
Unused(url, nonce) == metadata[candidate_uuid(url, nonce)] = NoRecord
\* the least nonce in 1..max_retries whose candidate is unused
FirstUnused(url) ==
    CHOOSE n \in 1 .. max_retries :
        Unused(url, n) /\ \A m \in 1 .. (n - 1) : ~Unused(url, m)

\* C1: a call with a URL that is already indexed returns the record the first
\* call for that URL returned (same name, url and timestamp) and leaves
\* url_to_uuid and metadata as they were.
C1_RegisterIdempotent ==
    [][\A url \in RegUrls :
          (Register(url) /\ IsIndexed(url)) =>
              /\ call'.ok
              /\ call'.ret = first[url]
              /\ url_to_uuid' = url_to_uuid
              /\ metadata' = metadata]_vars

\* a repeated call has returned a record older than the clock
C1_Witness ==
    /\ call # NoCall
    /\ call.known /\ call.ok
    /\ call.ret.timestamp < now

\* C2: no two distinct URLs are indexed to the same id, and every indexed URL
\* has a record, stored under its id, whose url is that URL.
C2_IndexInjective ==
    /\ \A u, v \in RegUrls :
          (u # v /\ IsIndexed(u) /\ IsIndexed(v)) => url_to_uuid[u] # url_to_uuid[v]
    /\ \A u \in RegUrls :
          IsIndexed(u) =>
              /\ metadata[url_to_uuid[u]] # NoRecord
              /\ metadata[url_to_uuid[u]].url = u

\* two URLs whose base digests collide are both indexed
C2_Witness ==
    \E u, v \in RegUrls :
        /\ u # v /\ IsIndexed(u) /\ IsIndexed(v)
        /\ candidate_uuid(u, 0) = candidate_uuid(v, 0)

C4_ExhaustionFails ==
    [][\A url \in RegUrls :
          (Register(url) /\ \A n \in Nonces : HeldByOther(url, n)) =>
              /\ ~call'.ok
              /\ call'.ret = NoRecord
              /\ url_to_uuid' = url_to_uuid
              /\ metadata' = metadata]_vars

\* a call has raised and its URL is not indexed
C4_Witness ==
    /\ call # NoCall
    /\ ~call.ok
    /\ ~IsIndexed(call.url)
    /\ \A n \in Nonces : HeldByOther(call.url, n)

\* C29 as stated: the id of a URL is the same whatever was registered before
\* it.  A URL registered first gets its base candidate, so in every run the
\* id of an indexed URL would have to be its base candidate.
C29_IdByUrlAlone ==
    \A u \in RegUrls : IsIndexed(u) => url_to_uuid[u] = candidate_uuid(u, 0)

\* C29 as amended: the id of a URL is its candidate of the least nonce whose
\* candidate is not held by the record of another URL; it is the base
\* candidate, whatever was registered before, unless another URL holds that.
C29_IdByUrlAndHolders ==
    \A u \in RegUrls :
        IsIndexed(u) =>
            /\ \E n \in Nonces :
                  /\ url_to_uuid[u] = candidate_uuid(u, n)
                  /\ \A m \in 0 .. (n - 1) : HeldByOther(u, m)
            /\ ~HeldByOther(u, 0) => url_to_uuid[u] = candidate_uuid(u, 0)

\* a URL is indexed to another id than its base candidate, which a URL
\* registered before it holds
C29_Witness ==
    \E u \in RegUrls :
        /\ IsIndexed(u)
        /\ url_to_uuid[u] # candidate_uuid(u, 0)
        /\ \E v \in RegUrls \ {u} : url_to_uuid[v] = candidate_uuid(u, 0)

----------------------------------------------------------------------------
(* Properties of the batch downloader *)

Terminated == main_pc \in {"returned", "raised"}
SoleOwner(i) == \A j \in Items : j # i => path(j) # path(i)
\* the entries of the returned list are the entries of the items of S, each once
OnePerItem(S) ==
    /\ Len(results) = Cardinality(S)
    /\ \E f \in [1 .. Len(results) -> S] :
          /\ \A x, y \in 1 .. Len(results) : x # y => f[x] # f[y]
          /\ \A x \in 1 .. Len(results) : results[x] = Entry(f[x])

\* C5 (SpecDownload): once the worker of an item has returned False on an
\* error, no file is at the destination of the item (no other item of the batch
\* having that destination): a partly written file is deleted whatever was raised.
C5_NoFileAfterFailure ==
    \A i \in Items :
        (/\ task[i].pc = "done"
         /\ task[i].res = "false"
         /\ task[i].status = "error"
         /\ SoleOwner(i)) => ~Exists(path(i))

\* C6 (SpecDownload): when batch_process_files with file_download returns, every
\* path of the returned list names a file that exists and holds the whole body
\* of an item of that destination.
C6_ReturnedPathsComplete ==
    (kind = "file" /\ main_pc = "returned") =>
        \A x \in 1 .. Len(results) :
            /\ Exists(results[x])
            /\ \E j \in Items : path(j) = results[x] /\ data[fs[results[x]]] = Body(j)

\* C7 (SpecPool): when every directory can be made, the destinations are
\* distinct, the worker returned False for item k and did not fail for any
\* other item, then at the end of the batch the worker has run for every item,
\* the call has returned normally and the list holds the entries of the other
\* items, each once, and nothing of item k.
C7_OneFailureIsolated ==
    \A k \in Items :
        (/\ Terminated
         /\ denied = NoPath
         /\ \A i, j \in Items : i # j => Entry(i) # Entry(j)
         /\ task[k].res = "false"
         /\ \A j \in Items \ {k} : task[j].res \in {"none", "true"}) =>
            /\ main_pc = "returned"
            /\ \A j \in Items : task[j].pc = "done"
            /\ OnePerItem(Items \ {k})
            /\ \A x \in 1 .. Len(results) : results[x] # Entry(k)

\* a batch of two items has returned with one failed item and one entry
C7_Witness ==
    /\ main_pc = "returned"
    /\ Len(urls) = 2
    /\ \E k \in Items : task[k].res = "false" /\ \A j \in Items \ {k} : task[j].res = "true"
    /\ Len(results) = 1

\* C8 (SpecPool): the batch call never ends with an exception on account of an
\* item, be it raised while the destination is computed or by the worker.
C8_BatchNeverRaises == main_pc # "raised"

KeptFromFirstRun ==
    rerun =>
        \A i \in Items :
            existed[path(i)] # NoFile =>
                /\ ~task[i].requested
                /\ task[i].status \in {"none", "already_exists"}
                /\ Exists(path(i))
                /\ <<fs[path(i)], data[fs[path(i)]]>> = existed[path(i)]

\* C10 (SpecRerun): a worker that finds its destination file reports
\* already_exists, returns True, sends no request and leaves the file as it is;
\* in a second run no item whose file the first run left is fetched again.
C10_ExistingNotRefetched ==
    /\ [][\A i \in Items :
            (Check(i) /\ Exists(path(i))) =>
                /\ task'[i].pc = "done"
                /\ task'[i].res = "true"
                /\ task'[i].status = "already_exists"
                /\ ~task'[i].requested
                /\ fs' = fs
                /\ data' = data]_vars
    /\ []KeptFromFirstRun

\* in the second run an item completed in the first run was found on disk
C10_Witness ==
    /\ rerun
    /\ \E i \in Items :
          /\ existed[path(i)] # NoFile
          /\ data[fs[path(i)]] = Body(i)
          /\ task[i].pc = "done"
          /\ task[i].res = "true"
          /\ task[i].status = "already_exists"
          /\ ~task[i].requested

----------------------------------------------------------------------------
(* The crawl: CrawlerApp, its request handler, and what main() schedules    *)
(* for download.  The crawler engine is the environment: it starts the      *)
(* handler of a queued request while fewer than max_requests_per_crawl      *)
(* requests have finished, and handlers interleave at their awaits.         *)

\* sub in s
Contains(s, sub) ==
    \E i \in 1 .. (Len(s) - Len(sub) + 1) : SubSeq(s, i, i + Len(sub) - 1) = sub
\* s.startswith(pre), s.endswith(suf)
StartsWith(s, pre) == Len(s) >= Len(pre) /\ SubSeq(s, 1, Len(pre)) = pre
EndsWith(s, suf) == Len(s) >= Len(suf) /\ SubSeq(s, Len(s) - Len(suf) + 1, Len(s)) = suf
\* s.lower()
Lower(s) ==
    [i \in 1 .. Len(s) |->
        IF s[i] = "A" THEN "a" ELSE IF s[i] = "Z" THEN "z" ELSE IF s[i] = "P" THEN "p"
        ELSE IF s[i] = "D" THEN "d" ELSE IF s[i] = "F" THEN "f" ELSE s[i]]

\* the URL as one string
UrlStr(url) ==
    (IF url.scheme = "https" THEN <<"h", "t", "t", "p", "s">> ELSE <<"h", "t", "t", "p">>)
        \o <<":", "/", "/">> \o url.netloc \o url.path
        \o (IF url.query = <<>> THEN <<>> ELSE <<"?">> \o url.query)

DotPdf == <<".", "p", "d", "f">>

\* the pages of the site, the first being the start URL
PagePaths ==
    << <<"/", "i">>, <<"/", "b", "l", "o", "g", "/", "b">>, <<"/", "d", "o", "c", "s", "/", "c">> >>
PageUrl(p) == Url("https", HostA, PagePaths[p], <<>>)
Pages == { PageUrl(p) : p \in 1 .. NumPages }

\* a tag of a page: its name and its href and src attributes, <<>> when absent
Tag(name, href, src) == [name |-> name, href |-> href, src |-> src]
XPdf == <<"/", "x", ".", "p", "d", "f">>
\* the resource tags a page can hold besides the links to the other pages: a
\* link to a document, and the same document embedded with an img tag
TagUniverse == { Tag("a", XPdf, <<>>), Tag("img", <<>>, XPdf) }

NoUrl == <<>>
NoDepth == 0
NoSoup == [tags |-> {}, refresh |-> NoUrl]
\* what a page can answer: its resource tags and the target of a meta refresh
Soups(url) == [tags : SUBSET TagUniverse, refresh : {NoUrl} \cup (Pages \ {url})]

\* hops is history: 1 for a seed, one more than its parent's for a request
\* that a handler has enqueued
IdleReq == [pc |-> "none", depth |-> NoDepth, soup |-> NoSoup, hops |-> 0]
SeedReq == [IdleReq EXCEPT !.pc = "queued", !.hops = 1]
\* context.request.user_data.get("depth", 1)
Depth(r) == IF r.depth = NoDepth THEN 1 ELSE r.depth
\* the requests the crawler has finished handling
Finished == { u \in DOMAIN req : req[u].pc = "done" }
InHandler(u) == req[u].pc \in {"links", "found", "push"}

Skip == [action |-> "skip", url |-> NoUrl, depth |-> NoDepth, label |-> "", headers |-> FALSE]

\* a plausible slip: the page cap is tested with > as the log message has it
transform_request_gt(request_options, kwargs) ==
    LET current_depth ==
            IF kwargs.depth # NoDepth THEN kwargs.depth
            ELSE IF request_options.depth # NoDepth THEN request_options.depth ELSE 1
        url == UrlStr(request_options.url)
    IN  IF crawled_count > max_pages THEN Skip
        ELSE IF current_depth > max_depth THEN Skip
        ELSE IF EndsWith(url, DotPdf) THEN Skip
        ELSE [action |-> "add", url |-> request_options.url, depth |-> current_depth,
              label |-> IF Contains(url, <<"/", "b", "l", "o", "g">>) THEN "BLOG" ELSE "",
              headers |-> Contains(url, <<"/", "d", "o", "c", "s">>)]

\* crawlee_app.py lines 92-127; request_options is the url and the depth of its
\* userData, kwargs the depth keyword
transform_request(request_options, kwargs) ==
    LET current_depth ==
            IF kwargs.depth # NoDepth THEN kwargs.depth
            ELSE IF request_options.depth # NoDepth THEN request_options.depth ELSE 1
        url == UrlStr(request_options.url)
    IN  IF crawled_count >= max_pages THEN Skip
        ELSE IF current_depth > max_depth THEN Skip
        ELSE IF EndsWith(url, DotPdf) THEN Skip
        ELSE [action |-> "add", url |-> request_options.url, depth |-> current_depth,
              label |-> IF Contains(url, <<"/", "b", "l", "o", "g">>) THEN "BLOG" ELSE "",
              headers |-> Contains(url, <<"/", "d", "o", "c", "s">>)]

\* file_processor.py lines 65-95: the absolute URLs of the tags whose src or
\* href starts with "/"
url_formater(url, tags) ==
    { Url(url.scheme, url.netloc, t.src, <<>>) : t \in { x \in tags : StartsWith(x.src, <<"/">>) } }
        \cup
    { Url(url.scheme, url.netloc, t.href, <<>>) : t \in { x \in tags : StartsWith(x.href, <<"/">>) } }

\* the links enqueue_links finds on a page: the other pages and the a tags
LinkUrls(url, soup) ==
    (Pages \ {url})
        \cup { Url(url.scheme, url.netloc, t.href, <<>>) :
                   t \in { x \in soup.tags : x.name = "a" /\ x.href # <<>> } }

\* BeautifulSoupCrawler(max_requests_per_crawl=self.max_pages) starts the
\* handler; request_handler lines 217-232: the page-cap check and the soup
Begin(url) ==
    /\ crawl_pc = "crawl"
    /\ req[url].pc = "queued"
    /\ Cardinality(Finished) < max_pages
    /\ IF crawled_count >= max_pages
       THEN req' = [req EXCEPT ![url].pc = "done"]
       ELSE \E soup \in Soups(url) : req' = [req EXCEPT ![url].pc = "links", ![url].soup = soup]
    /\ UNCHANGED <<notCrawl, crawl_pc, crawled_count, max_pages, max_depth, pdf_urls,
                   img_urls, transformed, scheduled>>

\* request_handler lines 234-249: await add_requests of the meta refresh
\* target, or await enqueue_links with transform_request for every link
Enqueue(url) ==
    /\ req[url].pc = "links"
    /\ LET soup == req[url].soup
           calls == IF soup.refresh # NoUrl THEN {}
                    ELSE { [url |-> l, parent |-> Depth(req[url]), count |-> crawled_count,
                            result |-> transform_request([url |-> l, depth |-> NoDepth],
                                                         [depth |-> Depth(req[url]) + 1])] :
                           l \in LinkUrls(url, soup) }
           added(u) == IF soup.refresh # NoUrl
                       THEN IF u = soup.refresh THEN {NoDepth} ELSE {}
                       ELSE { c.result.depth : c \in { x \in calls : x.url = u /\ x.result.action = "add" } }
       IN  /\ transformed' = calls
           /\ req' = [u \in DOMAIN req |->
                        IF u = url THEN [req[u] EXCEPT !.pc = "found", !.soup.refresh = NoUrl]
                        ELSE IF req[u].pc = "none" /\ added(u) # {}
                        THEN [pc |-> "queued", depth |-> CHOOSE d \in added(u) : TRUE, soup |-> NoSoup,
                              hops |-> req[url].hops + 1]
                        ELSE req[u]]
    /\ UNCHANGED <<notCrawl, crawl_pc, crawled_count, max_pages, max_depth, pdf_urls,
                   img_urls, scheduled>>

\* request_handler lines 255-258 and push_data_handler lines 173-198, up to the
\* await of push_data: the PDF links and the images of the page are collected
Discover(url) ==
    /\ req[url].pc = "found"
    /\ LET tags == req[url].soup.tags
           pdf_tags == { t \in tags : t.name = "a" /\ t.href # <<>> /\ EndsWith(Lower(t.href), DotPdf) }
           img_tags == { t \in tags : t.name = "img" }
           pdfs == pdf_urls \cup url_formater(url, pdf_tags)
       IN  /\ pdf_urls' = pdfs
           /\ img_urls' = img_urls \cup { u \in url_formater(url, img_tags) : u \notin pdfs }
    /\ req' = [req EXCEPT ![url].pc = "push"]
    /\ UNCHANGED <<notCrawl, crawl_pc, crawled_count, max_pages, max_depth, transformed,
                   scheduled>>

\* push_data has returned; request_handler lines 260-262
Pushed(url) ==
    /\ req[url].pc = "push"
    /\ crawled_count' = crawled_count + 1
    /\ req' = [req EXCEPT ![url].pc = "done", ![url].soup = NoSoup]
    /\ UNCHANGED <<notCrawl, crawl_pc, max_pages, max_depth, pdf_urls, img_urls,
                   transformed, scheduled>>

\* crawler.run has returned; main lines 444-458 give pdf_urls to one batch and
\* img_urls to the next
Schedule ==
    /\ crawl_pc = "crawl"
    /\ \A u \in DOMAIN req : ~InHandler(u)
    /\ \/ Cardinality(Finished) >= max_pages
       \/ \A u \in DOMAIN req : req[u].pc # "queued"
    /\ crawl_pc' = "scheduled"
    /\ scheduled' = [u \in pdf_urls \cup img_urls |->
                        (IF u \in pdf_urls THEN 1 ELSE 0) + (IF u \in img_urls THEN 1 ELSE 0)]
    /\ UNCHANGED <<notCrawl, crawled_count, max_pages, max_depth, pdf_urls, img_urls,
                   req, transformed>>

\* CrawlerApp.__init__ lines 74-86 and app.run(start_urls)
CrawlInit ==
    /\ RegistryIdle
    /\ BatchIdle
    /\ SessIdle
    /\ RagIdle
    /\ PathIdle
    /\ LoopIdle
    /\ FmtIdle
    /\ ProgIdle
    /\ MainIdle
    /\ crawl_pc = "crawl"
    /\ crawled_count = 0
    /\ max_depth \in 1 .. MaxDepth
    /\ pdf_urls = {}
    /\ img_urls = {}
    /\ req = [u \in Pages |-> IF u = PageUrl(1) THEN SeedReq ELSE IdleReq]
    /\ transformed = {}
    /\ scheduled = <<>>

InitCrawl ==
    /\ CrawlInit
    /\ max_pages \in 1 .. NumPages

NextCrawl ==
    \/ \E url \in Pages : Begin(url)
    \/ \E url \in Pages : Enqueue(url)
    \/ \E url \in Pages : Discover(url)
    \/ \E url \in Pages : Pushed(url)
    \/ Schedule

SpecCrawl == InitCrawl /\ [][NextCrawl]_vars

\* a run whose page cap is the size of the site
InitSite ==
    /\ CrawlInit
    /\ max_pages = NumPages

SpecSite == InitSite /\ [][NextCrawl]_vars

----------------------------------------------------------------------------
(* Properties of the crawl and of the pool *)

\* C11 (SpecSite): when main() has scheduled the downloads of a run, every
\* resource URL was given to at most one of the two batches.
C11_ScheduledOnce ==
    crawl_pc = "scheduled" => \A u \in DOMAIN scheduled : scheduled[u] <= 1

\* C12 (SpecPool): at no moment are more than max_workers workers in progress,
\* and when the batch call has ended the worker was run for every element of
\* the list.
C12_PoolBoundEveryItemOnce ==
    /\ Cardinality({ i \in Items : InProgress(i) }) <= max_workers
    /\ Terminated => \A i \in Items : task[i].pc = "done"

\* C13 (SpecCrawl): crawled_count never exceeds max_pages.
C13_PageCap == crawled_count <= max_pages

\* C14 (SpecCrawl): a call of transform_request returns skip exactly when
\* crawled_count >= max_pages, or the depth of the link (that of its parent plus
\* one) is above max_depth, or the URL ends in .pdf; otherwise it returns the
\* request of that URL with that depth; and the step of enqueue_links leaves
\* crawled_count, pdf_urls and img_urls as they were.
C14_TransformRequest ==
    /\ [](\A c \in transformed :
            /\ c.result.action = "skip" <=>
                  \/ c.count >= max_pages
                  \/ c.parent + 1 > max_depth
                  \/ EndsWith(UrlStr(c.url), DotPdf)
            /\ c.result.action # "skip" =>
                  /\ c.result.action = "add"
                  /\ c.result.url = c.url
                  /\ c.result.depth = c.parent + 1)
    /\ [][\A url \in Pages :
            Enqueue(url) =>
                /\ crawled_count' = crawled_count
                /\ pdf_urls' = pdf_urls
                /\ img_urls' = img_urls]_vars

\* one enqueue_links has let a link through with the depth of its parent plus
\* one and has skipped a link for nothing but its .pdf ending
C14_Witness ==
    /\ \E c \in transformed : c.result.action = "add" /\ c.result.depth = c.parent + 1
    /\ \E c \in transformed :
          /\ c.result.action = "skip"
          /\ c.count < max_pages
          /\ c.parent + 1 <= max_depth
          /\ EndsWith(UrlStr(c.url), DotPdf)

\* C25 (SpecCrawl): a page that is registered and pushed is no more hops from
\* the seed than the depth cap allows (the seed counting as 1), whether the
\* hops were links or meta refresh redirects.
C25_DepthCap ==
    \A u \in Pages : req[u].pc = "push" => req[u].hops <= max_depth

----------------------------------------------------------------------------
(* download_urls: one batch of file_download on the processor of main(),    *)
(* and the release of the processor's session                               *)

\* crawlee_app.py line 362: processor.close(), reached when the batch returned
Close ==
    /\ caller_pc = "batch"
    /\ main_pc = "returned"
    /\ session' = "closed"
    /\ caller_pc' = "ended"
    /\ UNCHANGED notSess

\* batch_process_files has raised: the exception leaves download_urls at line 352
Propagate ==
    /\ caller_pc = "batch"
    /\ main_pc = "raised"
    /\ caller_pc' = "failed"
    /\ UNCHANGED <<notSess, session>>

\* main line 436 and the call of download_urls at line 450 or 458
InitSession ==
    /\ RegistryIdle
    /\ CrawlIdle
    /\ RagIdle
    /\ PathIdle
    /\ LoopIdle
    /\ FmtIdle
    /\ ProgIdle
    /\ MainIdle
    /\ session = "open"
    /\ caller_pc = "batch"
    /\ kind = "file"
    /\ urls \in ItemLists(MaxItems)
    /\ max_workers = DefaultWorkers
    /\ denied \in {NoPath} \cup { DestDir(kind, urls[i]) : i \in 1 .. Len(urls) }
    /\ rerun = FALSE
    /\ main_pc = "submit"
    /\ submitted = 0
    /\ collected = {}
    /\ results = <<>>
    /\ task = [i \in 1 .. Len(urls) |-> IdleTask]
    /\ fs = [p \in Paths |-> NoFile]
    /\ data = [n \in Inodes |-> <<>>]
    /\ download_lock = 0
    /\ existed = [p \in Paths |-> NoFile]

NextSession ==
    \/ Submit
    \/ \E i \in Items : Start(i)
    \/ \E i \in Items : Check(i)
    \/ \E i \in Items : OpenFile(i)
    \/ \E i \in Items : OpenError(i)
    \/ \E i \in Items : WriteChunk(i)
    \/ \E i \in Items : StreamError(i)
    \/ \E i \in Items : WriteError(i)
    \/ \E i \in Items : Finish(i)
    \/ \E i \in Items : ExcRequest(i)
    \/ \E i \in Items : Remove(i)
    \/ \E i \in Items : Collect(i)
    \/ Return
    \/ Unwind
    \/ Close
    \/ Propagate

SpecSession == InitSession /\ [][NextSession]_vars

\* C15 (SpecSession): once download_urls has ended, by returning or with the
\* exception of its batch, the session of the processor is closed.
C15_SessionClosed == caller_pc \in {"ended", "failed"} => session = "closed"

----------------------------------------------------------------------------
(* Staging and upload: main() followed by send_to_rag, twice as in __main__. *)
(* A path is a sequence of names; a staged name is kept as its three parts.  *)

\* the PDF files a run can leave under DATA_DIRECTORY/html/<domain> and
\* DATA_DIRECTORY/pdf/<domain>: the tree, the directories below the domain, the name
DocList ==
    << [tree |-> "html", dirs |-> <<"u", "p">>, name |-> "n.pdf"],
       [tree |-> "html", dirs |-> <<"v", "p">>, name |-> "n.pdf"],
       [tree |-> "pdf", dirs |-> <<"q">>, name |-> "m.pdf"] >>
Docs == 1 .. NumDocs
NoDoc == 0

\* file_processor.py line 139: the parent directory's name, "-", the file's name
StagedName(d) == <<DocList[d].dirs[Len(DocList[d].dirs)], "-", DocList[d].name>>
Names == { StagedName(d) : d \in Docs } \cup { <<DocList[d].name>> : d \in Docs }

\* where a file can be: in its domain directory, in pdf-upload.tmp, in pdf-upload.done
Src(d) == [dir |-> DocList[d].tree, name |-> DocList[d].dirs \o <<DocList[d].name>>]
Tmp(n) == [dir |-> "pdf-upload.tmp", name |-> n]
Done_(n) == [dir |-> "pdf-upload.done", name |-> n]
Places == { Src(d) : d \in Docs } \cup { Tmp(n) : n \in Names } \cup { Done_(n) : n \in Names }
\* Path(file).name
BaseName(place) == IF place.dir \in {"html", "pdf"} THEN <<place.name[Len(place.name)]>> ELSE place.name

\* a set as a list, in one of its orders (os.walk)
RECURSIVE ListOf(_)
ListOf(S) == IF S = {} THEN <<>> ELSE LET x == CHOOSE y \in S : TRUE IN <<x>> \o ListOf(S \ {x})

\* file_processor.py lines 114-154 for one tree: every PDF found is moved to
\* pdf-upload.tmp under its staged name and listed there; a file whose move
\* raised (F) is listed where it was.  The result is the files and the list.
RECURSIVE get_all_pdfs_from_directory(_, _, _, _)
get_all_pdfs_from_directory(f, d, tree, F) ==
    IF d > NumDocs THEN [files |-> f, pdfs |-> <<>>]
    ELSE IF DocList[d].tree # tree \/ f[Src(d)] = NoDoc
    THEN get_all_pdfs_from_directory(f, d + 1, tree, F)
    ELSE IF d \in F
    THEN LET rest == get_all_pdfs_from_directory(f, d + 1, tree, F)
         IN  [files |-> rest.files, pdfs |-> <<Src(d)>> \o rest.pdfs]
    ELSE LET moved == [f EXCEPT ![Tmp(StagedName(d))] = f[Src(d)], ![Src(d)] = NoDoc]
             rest == get_all_pdfs_from_directory(moved, d + 1, tree, F)
         IN  [files |-> rest.files, pdfs |-> <<Tmp(StagedName(d))>> \o rest.pdfs]

\* file_processor.py lines 98-111: the PDF files in pdf-upload.tmp
get_all_pdfs_in_temp_directory(f) == ListOf({ Tmp(n) : n \in { m \in Names : f[Tmp(m)] # NoDoc } })

\* main line 439, turncate_storage: the storage directory is deleted with all
\* that is in it, or rmtree raises and the error is printed
Truncate ==
    /\ rag_pc = "idle"
    /\ run < 2
    /\ run' = run + 1
    /\ rag_pc' = "main"
    /\ \/ files' = [pl \in Places |-> NoDoc]
       \/ files' = files
    /\ UNCHANGED <<notRag, targets, idx, reported, pending>>

\* main lines 441-466: the crawl and the batches leave PDF files under the
\* domain directories
Produce ==
    /\ rag_pc = "main"
    /\ \E S \in SUBSET Docs :
          files' = [pl \in Places |->
                       IF \E d \in S : pl = Src(d) THEN CHOOSE d \in S : pl = Src(d) ELSE files[pl]]
    /\ rag_pc' = "stage"
    /\ UNCHANGED <<notRag, run, targets, idx, reported, pending>>

\* send_to_rag lines 471-489: the three lists, one after the other
Stage ==
    /\ rag_pc = "stage"
    /\ \E F \in SUBSET Docs :
          LET html == get_all_pdfs_from_directory(files, 1, "html", F)
              content == get_all_pdfs_from_directory(html.files, 1, "pdf", F)
          IN  /\ files' = content.files
              /\ targets' = html.pdfs \o content.pdfs \o get_all_pdfs_in_temp_directory(content.files)
    /\ idx' = 1
    /\ reported' = {}
    /\ rag_pc' = "loop"
    /\ UNCHANGED <<notRag, run, pending>>

\* send_to_rag lines 490-507, one iteration: upload_document raises when the
\* file is not there; else it succeeds, returns a false result or raises.  On
\* success set_pdfs_upload_done (lines 157-173) moves the file to
\* pdf-upload.done, or the move raises and the error is printed; then the file
\* is printed as written.
Upload ==
    /\ rag_pc = "loop"
    /\ idx <= Len(targets)
    /\ LET pdf_file_path == targets[idx]
           file_destination == Done_(BaseName(pdf_file_path))
       IN  IF files[pdf_file_path] = NoDoc
           THEN UNCHANGED <<files, reported, pending>>
           ELSE \/ /\ \/ files' = [files EXCEPT ![file_destination] = files[pdf_file_path],
                                                ![pdf_file_path] = NoDoc]
                      \/ files' = files
                   /\ reported' = reported \cup {pdf_file_path}
                   /\ UNCHANGED pending
                \/ /\ pending' = pending \cup {<<pdf_file_path, files[pdf_file_path]>>}
                   /\ UNCHANGED <<files, reported>>
    /\ idx' = idx + 1
    /\ UNCHANGED <<notRag, rag_pc, run, targets>>

\* the loop of send_to_rag is over; __main__ lines 514-521 go on with the next round
EndRag ==
    /\ rag_pc = "loop"
    /\ idx > Len(targets)
    /\ rag_pc' = "idle"
    /\ pending' = { pe \in pending : files[pe[1]] = pe[2] }
    /\ UNCHANGED <<notRag, files, run, targets, idx, reported>>

InitRag ==
    /\ RegistryIdle
    /\ BatchIdle
    /\ CrawlIdle
    /\ SessIdle
    /\ PathIdle
    /\ LoopIdle
    /\ FmtIdle
    /\ ProgIdle
    /\ MainIdle
    /\ files = [pl \in Places |-> NoDoc]
    /\ rag_pc = "idle"
    /\ run = 0
    /\ targets = <<>>
    /\ idx = 0
    /\ reported = {}
    /\ pending = {}

NextRag ==
    \/ Truncate
    \/ Produce
    \/ Stage
    \/ Upload
    \/ EndRag

SpecRag == InitRag /\ [][NextRag]_vars

\* C16 (SpecRag): a file that send_to_rag has printed as written to RAG is in
\* pdf-upload.done and no longer where it was uploaded from.
C16_ReportedMeansMoved ==
    rag_pc = "loop" =>
        \A pl \in reported : files[Done_(BaseName(pl))] # NoDoc /\ files[pl] = NoDoc

\* C17 (SpecRag): a file left in pdf-upload.tmp after its upload failed in the
\* first round is still there when send_to_rag of the second round starts.
C17_FailedStaysPending ==
    (run = 2 /\ rag_pc = "stage") =>
        \A pe \in pending : pe[1].dir = "pdf-upload.tmp" => files[pe[1]] = pe[2]

\* C28 (SpecRag): the staging of send_to_rag loses no document (every PDF
\* that was on disk is still on disk, under a name of its own), and the list
\* it goes through has every file of pdf-upload.tmp exactly once.
C28_StagingKeepsAll ==
    [][Stage =>
          /\ \A d \in Docs : (\E pl \in Places : files[pl] = d) => (\E pl \in Places : files'[pl] = d)
          /\ \A i, j \in 1 .. Len(targets') : i # j => targets'[i] # targets'[j]
          /\ \A n \in Names :
                files'[Tmp(n)] # NoDoc => \E i \in 1 .. Len(targets') : targets'[i] = Tmp(n)]_vars

----------------------------------------------------------------------------
(* The path resolver on its own *)

\* a host with a port: the ":" of the netloc is not a word character
HostPort == <<"a", ".", "t", ":", "8">>

\* the paths of the URLs the resolver is called with: two that differ in one
\* character only, of which one is sanitized and the other is what it is
\* sanitized to; one with a letter that is not ASCII; one whose last segment
\* has no "."
ResolverPaths ==
    { <<"/", "a", " ", "b", ".", "p">>,
      <<"/", "a", "_", "b", ".", "p">>,
      <<"/", "d", "/", "U+00E9", ".", "p">>,
      <<"/", "d", "/", "g">> }

\* the URLs of the pending resources
ResolverUrls ==
    { Url(sc, nl, pa, qu) : sc \in {"http", "https"}, nl \in {HostA, HostPort},
                            pa \in ResolverPaths, qu \in { <<>>, <<"v", "=", "1">> } }

\* one call get_save_path_from_url(url, save_base_path): the directory is
\* made (exist_ok=True) and the path is returned
Resolve(url) ==
    /\ Cardinality(resolved) < MaxCalls
    /\ resolved' = resolved \cup { <<url, get_save_path_from_url(url, SaveBase)>> }
    /\ made' = made \cup { SaveDir(url, SaveBase) }
    /\ UNCHANGED notPath

InitPath ==
    /\ RegistryIdle
    /\ BatchIdle
    /\ CrawlIdle
    /\ SessIdle
    /\ RagIdle
    /\ LoopIdle
    /\ FmtIdle
    /\ ProgIdle
    /\ MainIdle
    /\ PathIdle

NextPath == \E url \in ResolverUrls : Resolve(url)

SpecPath == InitPath /\ [][NextPath]_vars

\* the part of a returned path below save_base_path
BelowBase(full) == SubSeq(full, Len(SaveBase) + 2, Len(full))

\* C18 (SpecPath): below the base directory a returned path has only the
\* characters A-Z, a-z, 0-9, ".", "_" and "-" in its components, and as many
\* characters and components as the URL's host and path have (with "download"
\* added for a path without a file name).
C18_OnlySafeCharacters ==
    LET Safe == (WordChars \ {"U+00E9", "U+4E2D"}) \cup {".", "-"}
        Of(url) == IF HasDot(SplitPath(url, <<>>).filename)
                   THEN url.netloc \o <<"/">> \o Strip(url.path)
                   ELSE url.netloc \o <<"/">> \o Strip(url.path)
                            \o <<"/", "d", "o", "w", "n", "l", "o", "a", "d">>
    IN  \A c \in resolved :
            LET below == BelowBase(c[2])
            IN  /\ \A i \in 1 .. Len(below) : below[i] \in Safe \cup {"/"}
                /\ Len(below) = Len(Of(c[1]))
                /\ \A i \in 1 .. Len(below) : below[i] = "/" <=> Of(c[1])[i] = "/"

\* C19 (SpecPath): two different URLs resolved under one base directory never
\* get the same path.
C19_CollisionFree ==
    \A c1, c2 \in resolved : c1[1] # c2[1] => c1[2] # c2[2]

----------------------------------------------------------------------------
(* Request handlers that register concurrently.  The crawler runs the        *)
(* handlers of several requests as tasks of one event loop: a handler gives  *)
(* way to the others where it awaits and nowhere else.  request_handler      *)
(* awaits the enqueueing of the links, then runs lines 251-256 without an    *)
(* await, then awaits push_data_handler.                                     *)

Handlers == 1 .. NumHandlers

IdleHandler == [pc |-> "idle", url |-> NoUrl, ref |-> NoId, raced |-> FALSE]

\* "html" / Path(name)
HtmlName(name) == <<"html">> \o name

\* lines 216-249: the handler of a request for url starts and awaits
\* enqueue_links (or add_requests); handlers are numbered in the order in
\* which they start, and the request queue hands out a URL once
Enter(h, url) ==
    /\ handler[h].pc = "idle"
    /\ \A g \in 1 .. (h - 1) : handler[g].pc # "idle"
    /\ \A g \in Handlers : handler[g].url # url
    /\ handler' = [handler EXCEPT ![h] = [IdleHandler EXCEPT !.pc = "enqueue", !.url = url]]
    /\ UNCHANGED <<regVars, batchVars, crawlVars, sessVars, ragVars, pathVars, fmtVars, progVars, mainVars>>

\* a plausible slip: the handler gives way to the other handlers between the
\* test of the candidate and the insertion of the record
RegisterInGivingWay(h) ==
    LET url == handler[h].url
        out == registerfilemetadata(url_to_uuid, metadata, url, now)
    IN  \/ /\ handler[h].pc = "enqueue"
           /\ handler' = [handler EXCEPT ![h] =
                            [pc |-> IF out.ok THEN "insert" ELSE "failed",
                             url |-> url,
                             ref |-> out.url_to_uuid[url],
                             raced |-> \E g \in Handlers \ {h} : handler[g].pc = "enqueue"]]
           /\ UNCHANGED <<regVars, batchVars, crawlVars, sessVars, ragVars, pathVars, fmtVars, progVars, mainVars>>
        \/ /\ handler[h].pc = "insert"
           /\ url_to_uuid' = [url_to_uuid EXCEPT ![url] = handler[h].ref]
           /\ metadata' = [metadata EXCEPT ![handler[h].ref] =
                              [name |-> HtmlName(handler[h].ref), url |-> url,
                               timestamp |-> now]]
           /\ handler' = [handler EXCEPT ![h].pc = "push"]
           /\ UNCHANGED <<sha, now, call, first,
                          batchVars, crawlVars, sessVars, ragVars, pathVars, fmtVars, progVars, mainVars>>

\* lines 251-256: the handler is resumed, registers its URL, puts "html/"
\* before the name of the record it was given (the record the registry
\* keeps), and goes on to await push_data_handler; a RuntimeError of the
\* registry ends the handler
RegisterIn(h) ==
    LET url == handler[h].url
        out == registerfilemetadata(url_to_uuid, metadata, url, now)
        id == out.url_to_uuid[url]
    IN  /\ handler[h].pc = "enqueue"
        /\ url_to_uuid' = out.url_to_uuid
        /\ metadata' = IF out.ok
                       THEN [out.metadata EXCEPT ![id].name = HtmlName(@)]
                       ELSE out.metadata
        /\ call' = [url |-> url, ok |-> out.ok, ret |-> out.ret, nonce |-> out.nonce,
                    known |-> url_to_uuid[url] # NoId]
        /\ first' = IF out.ok /\ first[url] = NoRecord
                    THEN [first EXCEPT ![url] = out.ret]
                    ELSE first
        /\ handler' = [handler EXCEPT ![h] =
                         [pc |-> IF out.ok THEN "push" ELSE "failed",
                          url |-> url,
                          ref |-> id,
                          raced |-> \E g \in Handlers \ {h} : handler[g].pc = "enqueue"]]
        /\ UNCHANGED <<sha, now, batchVars, crawlVars, sessVars, ragVars, pathVars, fmtVars, progVars, mainVars>>

\* lines 258-262: push_data_handler is over and the handler returns
Leave(h) ==
    /\ handler[h].pc = "push"
    /\ handler' = [handler EXCEPT ![h].pc = "done"]
    /\ UNCHANGED <<regVars, batchVars, crawlVars, sessVars, ragVars, pathVars, fmtVars, progVars, mainVars>>

InitLoop ==
    /\ RegistryInit
    /\ sha \in Digests
    /\ BatchIdle
    /\ CrawlIdle
    /\ SessIdle
    /\ RagIdle
    /\ PathIdle
    /\ FmtIdle
    /\ ProgIdle
    /\ MainIdle
    /\ handler = [h \in Handlers |-> IdleHandler]

NextLoop ==
    \/ \E h \in Handlers, url \in RegUrls : Enter(h, url)
    \/ \E h \in Handlers : RegisterIn(h)
    \/ \E h \in Handlers : Leave(h)

SpecLoop == InitLoop /\ [][NextLoop]_vars

\* the handler has been given a record
Holds(h) == handler[h].pc \in {"push", "done"}

C21_StoredNameIsId ==
    \A id \in Ids :
        metadata[id] # NoRecord =>
            /\ metadata[id].name = id
            /\ url_to_uuid[metadata[id].url] = id

----------------------------------------------------------------------------
(* The two rounds of __main__: main() is called twice in one process *)

\* the request queue app.run(start_urls) starts with
StartQueue(seed) ==
    [u \in Pages |-> IF u = seed THEN SeedReq ELSE IdleReq]

\* main lines 433-442: app = CrawlerApp() and app.run(start_urls).  __new__
\* gives the one instance there is, and __init__ (lines 74-86) sets its fields
\* only while _initialized is false, that is in the first round.
Main ==
    /\ crawl_pc \in {"idle", "scheduled"}
    /\ run < 2
    /\ run' = run + 1
    /\ crawl_pc' = "crawl"
    /\ IF run = 0
       THEN /\ crawled_count' = 0
            /\ max_pages' \in 1 .. NumPages
            /\ max_depth' = MaxDepth
            /\ pdf_urls' = {}
            /\ img_urls' = {}
       ELSE UNCHANGED <<crawled_count, max_pages, max_depth, pdf_urls, img_urls>>
    /\ \E seed \in Pages : req' = StartQueue(seed)
    /\ transformed' = {}
    /\ scheduled' = <<>>
    /\ UNCHANGED <<regVars, batchVars, sessVars, pathVars, loopVars, fmtVars, progVars, mainVars,
                   files, rag_pc, targets, idx, reported, pending>>

\* the process has started: no CrawlerApp was made, the queue is empty
InitRuns ==
    /\ RegistryIdle
    /\ BatchIdle
    /\ SessIdle
    /\ RagIdle
    /\ PathIdle
    /\ LoopIdle
    /\ FmtIdle
    /\ ProgIdle
    /\ MainIdle
    /\ crawl_pc = "idle"
    /\ crawled_count = 0
    /\ max_pages = 0
    /\ max_depth = 0
    /\ pdf_urls = {}
    /\ img_urls = {}
    /\ req = [u \in Pages |-> IdleReq]
    /\ transformed = {}
    /\ scheduled = <<>>

NextRuns ==
    \/ Main
    \/ \E url \in Pages : Begin(url)
    \/ \E url \in Pages : Enqueue(url)
    \/ \E url \in Pages : Discover(url)
    \/ \E url \in Pages : Pushed(url)
    \/ Schedule

SpecRuns == InitRuns /\ [][NextRuns]_vars

\* app.run was called and no request was taken from the queue yet
RunStarts == crawl_pc = "crawl" /\ \A u \in Pages : req[u].pc \in {"none", "queued"}

\* C22 (SpecRuns): when a round's crawl starts, the first or the second,
\* crawled_count is 0 and pdf_urls and img_urls are empty.
C22_StatePerRun ==
    RunStarts => crawled_count = 0 /\ pdf_urls = {} /\ img_urls = {}

----------------------------------------------------------------------------
(* The markup rewritten by url_formater, and the download of what it collects *)

\* Path(p).resolve() of an absolute path: empty and "." components go, ".."
\* goes with the component before it
resolve(p) ==
    LET parts == Split(p)
        RECURSIVE go(_, _)
        go(i, acc) ==
            IF i > Len(parts) THEN acc
            ELSE IF parts[i] = <<>> \/ parts[i] = <<".">> THEN go(i + 1, acc)
            ELSE IF parts[i] = <<".", ".">>
                 THEN go(i + 1, IF Len(acc) = 0 THEN acc ELSE SubSeq(acc, 1, Len(acc) - 1))
            ELSE go(i + 1, Append(acc, parts[i]))
        RECURSIVE glue(_, _)
        glue(l, i) == IF i > Len(l) THEN <<>> ELSE <<"/">> \o l[i] \o glue(l, i + 1)
    IN  IF go(1, <<>>) = <<>> THEN <<"/">> ELSE glue(go(1, <<>>), 1)

\* the pages whose markup is rewritten: a host, and a host with a port
FormatPages ==
    { Url(sc, nl, <<"/", "i">>, <<>>) : sc \in {"http", "https"}, nl \in {HostA, HostPort} }

\* the src or href values of the tags, all starting with "/"
FormatLinks ==
    { XPdf, <<"/", "d", "/", "a", " ", "b", ".", "p", "d", "f">>, <<"/", "d", "/", "g">> }

\* url_formater lines 73-78 and 83-88: the link is resolved as a URL of its
\* own (it has no host) under base_dir / domain, domain being the page's netloc
LocalPath(url, ori_url, base_dir) ==
    resolve(get_save_path_from_url(Url("", <<>>, ori_url, <<>>), PathJoin(base_dir, url.netloc)))

\* url_formater lines 80 and 90
TargetUrl(url, ori_url) == Url(url.scheme, url.netloc, ori_url, <<>>)

\* url_formater for one tag of the page url whose src or href is ori_url: the
\* directory is made, the tag is given the local path, the absolute URL is
\* collected
Format(url, ori_url) ==
    /\ Cardinality(markup) < MaxCalls
    /\ markup' = markup \cup { [page |-> url, link |-> ori_url,
                                local |-> LocalPath(url, ori_url, SaveBase),
                                target |-> TargetUrl(url, ori_url)] }
    /\ made' = made \cup { SaveDir(Url("", <<>>, ori_url, <<>>), PathJoin(SaveBase, url.netloc)) }
    /\ UNCHANGED <<regVars, batchVars, crawlVars, sessVars, ragVars, loopVars, progVars, mainVars, resolved>>

\* batch_process_files lines 227-235 for a collected URL: the destination the
\* resource is saved to
Save(m) ==
    /\ \A c \in resolved : c[1] # m.target
    /\ resolved' = resolved \cup { <<m.target, get_save_path_from_url(m.target, SaveBase)>> }
    /\ made' = made \cup { SaveDir(m.target, SaveBase) }
    /\ UNCHANGED <<notPath>>

InitFormat ==
    /\ RegistryIdle
    /\ BatchIdle
    /\ AuxIdle

NextFormat ==
    \/ \E url \in FormatPages, ori_url \in FormatLinks : Format(url, ori_url)
    \/ \E m \in markup : Save(m)

SpecFormat == InitFormat /\ [][NextFormat]_vars

\* C23 (SpecFormat): the local path url_formater has put in a tag is the path
\* the batch saves the resource of the collected URL to.
C23_LocalPathIsSavePath ==
    \A m \in markup : \A c \in resolved : c[1] = m.target => resolve(c[2]) = m.local

----------------------------------------------------------------------------
(* file_download followed with its progress reports.  The calls of a batch   *)
(* run side by side in the pool; each has its own response and its own       *)
(* counters.  Sizes are counted in chunks: the body is NumChunks chunks as   *)
(* iter_content delivers them (decoded, when the answer has a                *)
(* content-encoding), total_size is what the content-length header says.     *)

Calls == 1 .. MaxItems

IdleCall ==
    [pc |-> "start", total_size |-> 0, downloaded_size |-> 0, events |-> <<>>, ret |-> "none"]

\* progress_callback(url, save_path, status, progress)
Report(c, status, progress) ==
    [c EXCEPT !.events = Append(@, [status |-> status, progress |-> progress])]

\* return True / return False / an exception leaves the function
Returns(c, ret) == [c EXCEPT !.pc = "done", !.ret = ret]

\* lines 301-304: the file is there
FdExists(k) ==
    /\ fd[k].pc = "start"
    /\ fd' = [fd EXCEPT ![k] = Returns(Report(@, "already_exists", 0), "true")]
    /\ UNCHANGED <<regVars, batchVars, crawlVars, sessVars, ragVars, pathVars, loopVars, fmtVars, mainVars>>

\* lines 307-314: the request is answered; content-length is absent (0), the
\* length of the body, or less than what iter_content will deliver
FdRequest(k) ==
    /\ fd[k].pc = "start"
    /\ \E length \in 0 .. NumChunks :
          fd' = [fd EXCEPT ![k].pc = "open", ![k].total_size = length]
    /\ UNCHANGED <<regVars, batchVars, crawlVars, sessVars, ragVars, pathVars, loopVars, fmtVars, mainVars>>

\* lines 307-310 raise a RequestException: lines 333-335 report the error
FdRequestError(k) ==
    /\ fd[k].pc = "start"
    /\ fd' = [fd EXCEPT ![k] = [Report(@, "error", 0) EXCEPT !.pc = "cleanup"]]
    /\ UNCHANGED <<regVars, batchVars, crawlVars, sessVars, ragVars, pathVars, loopVars, fmtVars, mainVars>>

\* line 313 raises ValueError (a content-length that is no number), or line
\* 318 raises OSError: lines 340-343
FdOtherError(k) ==
    /\ fd[k].pc \in {"start", "open"}
    /\ fd' = [fd EXCEPT ![k] = Returns(Report(@, "error", 0), "false")]
    /\ UNCHANGED <<regVars, batchVars, crawlVars, sessVars, ragVars, pathVars, loopVars, fmtVars, mainVars>>

\* line 318: open(save_path, "wb")
FdOpen(k) ==
    /\ fd[k].pc = "open"
    /\ fd' = [fd EXCEPT ![k].pc = "stream"]
    /\ UNCHANGED <<regVars, batchVars, crawlVars, sessVars, ragVars, pathVars, loopVars, fmtVars, mainVars>>

\* lines 319-328: one chunk is written and counted; with a known total the
\* progress (downloaded_size / total_size) * 100 is reported
FdChunk(k) ==
    /\ fd[k].pc = "stream"
    /\ fd[k].downloaded_size < NumChunks
    /\ LET c == [fd[k] EXCEPT !.downloaded_size = @ + 1]
       IN  fd' = [fd EXCEPT ![k] =
                     IF c.total_size > 0
                     THEN Report(c, "downloading", (c.downloaded_size * 100) \div c.total_size)
                     ELSE c]
    /\ UNCHANGED <<regVars, batchVars, crawlVars, sessVars, ragVars, pathVars, loopVars, fmtVars, mainVars>>

\* iter_content raises a RequestException: lines 333-335
FdStreamError(k) ==
    /\ fd[k].pc = "stream"
    /\ fd[k].downloaded_size < NumChunks
    /\ fd' = [fd EXCEPT ![k] = [Report(@, "error", 0) EXCEPT !.pc = "cleanup"]]
    /\ UNCHANGED <<regVars, batchVars, crawlVars, sessVars, ragVars, pathVars, loopVars, fmtVars, mainVars>>

\* f.write raises OSError: lines 340-343
FdWriteError(k) ==
    /\ fd[k].pc = "stream"
    /\ fd[k].downloaded_size < NumChunks
    /\ fd' = [fd EXCEPT ![k] = Returns(Report(@, "error", 0), "false")]
    /\ UNCHANGED <<regVars, batchVars, crawlVars, sessVars, ragVars, pathVars, loopVars, fmtVars, mainVars>>

\* lines 330-333: the body is over, completed is reported at 100
FdCompleted(k) ==
    /\ fd[k].pc = "stream"
    /\ fd[k].downloaded_size = NumChunks
    /\ fd' = [fd EXCEPT ![k] = Returns(Report(@, "completed", 100), "true")]
    /\ UNCHANGED <<regVars, batchVars, crawlVars, sessVars, ragVars, pathVars, loopVars, fmtVars, mainVars>>

\* lines 336-339: the partial file is removed and False returned, or
\* os.remove raises and the exception leaves the function
FdCleanup(k) ==
    /\ fd[k].pc = "cleanup"
    /\ \E ret \in {"false", "raised"} : fd' = [fd EXCEPT ![k] = Returns(@, ret)]
    /\ UNCHANGED <<regVars, batchVars, crawlVars, sessVars, ragVars, pathVars, loopVars, fmtVars, mainVars>>

InitProgress ==
    /\ RegistryIdle
    /\ BatchIdle
    /\ CrawlIdle
    /\ SessIdle
    /\ RagIdle
    /\ PathIdle
    /\ LoopIdle
    /\ FmtIdle
    /\ MainIdle
    /\ fd = [k \in Calls |-> IdleCall]

NextProgress ==
    \/ \E k \in Calls : FdExists(k)
    \/ \E k \in Calls : FdRequest(k)
    \/ \E k \in Calls : FdRequestError(k)
    \/ \E k \in Calls : FdOtherError(k)
    \/ \E k \in Calls : FdOpen(k)
    \/ \E k \in Calls : FdChunk(k)
    \/ \E k \in Calls : FdStreamError(k)
    \/ \E k \in Calls : FdWriteError(k)
    \/ \E k \in Calls : FdCompleted(k)
    \/ \E k \in Calls : FdCleanup(k)

SpecProgress == InitProgress /\ [][NextProgress]_vars

\* the reports of a call are: nothing but downloading before the last one,
\* and already_exists only alone
WellShaped(ev) ==
    /\ \A n \in 1 .. (Len(ev) - 1) : ev[n].status = "downloading"
    /\ \A n \in 1 .. Len(ev) : ev[n].status = "already_exists" => Len(ev) = 1

\* the call has ended with its last report being one of sts
EndedWith(c, sts) ==
    c.pc = "done" /\ Len(c.events) > 0 /\ c.events[Len(c.events)].status \in sts

\* the shapes of the reports: completed only at 100 and after every chunk, a
\* report at the end of every call, True returned exactly after
\* already_exists or completed
ProgressShapes ==
    \A k \in Calls :
        LET c == fd[k]
        IN  /\ WellShaped(c.events)
            /\ \A n \in 1 .. Len(c.events) :
                  c.events[n].status = "completed" =>
                      c.events[n].progress = 100 /\ c.downloaded_size = NumChunks
            /\ c.pc = "done" => EndedWith(c, {"already_exists", "completed", "error"})
            /\ c.pc = "done" => (c.ret = "true" <=> EndedWith(c, {"already_exists", "completed"}))

\* C24 (SpecProgress): for each item the reports are a single already_exists,
\* or downloading reports followed by one completed at 100, or downloading
\* reports followed by one error; completed comes after every chunk, nothing
\* follows completed or error, True is returned exactly in the first two
\* cases, and the downloading percentages never decrease and never exceed 100.
C24_ProgressEvents ==
    /\ ProgressShapes
    /\ \A k \in Calls :
          LET ev == fd[k].events
          IN  \A n \in 1 .. Len(ev) :
                 ev[n].status = "downloading" =>
                    /\ ev[n].progress <= 100
                    /\ \A m \in 1 .. (n - 1) : ev[m].progress <= ev[n].progress

----------------------------------------------------------------------------
(* The lock of PDFProcessor *)

\* two items of the batch with one destination
SamePath(i, j) == i # j /\ path(i) = path(j)

\* the worker of item i has the destination open for writing
Writing(i) == task[i].pc = "stream"

\* C26 (SpecDownload): in a batch of _download_single_pdf, two workers with
\* the same save_path never have the file open for writing together, and none
\* has returned for already_exists while the other is still writing it.
C26_LockProtectsDownload ==
    kind = "pdf" =>
        \A i, j \in Items :
            SamePath(i, j) =>
                /\ ~(Writing(i) /\ Writing(j))
                /\ ~(task[i].pc = "done" /\ task[i].status = "already_exists" /\ Writing(j))

----------------------------------------------------------------------------
(* The batches of main(): the PDF batch and the image batch of download_urls *)
(* and the HTML output batch of write_output_files, all three on the one     *)
(* processor made at line 436                                                *)

\* main lines 444-463: the next batch is started.  The PDF batch and the
\* image batch are left out when nothing of their kind was found; the HTML
\* batch (kind "generic": save_base_path is None) is always run.  Every batch
\* has a directory of its own.
StartBatch(n) ==
    /\ caller_pc \in {"idle", "ended"}
    /\ stage < n
    /\ stage' = n
    /\ caller_pc' = "batch"
    /\ kind' = IF n = 3 THEN "generic" ELSE "file"
    /\ urls' \in ItemLists(RerunItems)
    /\ denied' \in {NoPath} \cup { DestDir(kind', urls'[i]) : i \in 1 .. Len(urls') }
    /\ main_pc' = "submit"
    /\ submitted' = 0
    /\ collected' = {}
    /\ results' = <<>>
    /\ task' = [i \in 1 .. Len(urls') |-> IdleTask]
    /\ fs' = [p \in Paths |-> NoFile]
    /\ data' = [n2 \in Inodes |-> <<>>]
    /\ UNCHANGED <<regVars, crawlVars, ragVars, pathVars, loopVars, fmtVars, progVars,
                   session, max_workers, rerun, download_lock, existed>>

\* main line 436: processor = FileProcessor(max_workers=10)
InitMain ==
    /\ RegistryIdle
    /\ BatchIdle
    /\ CrawlIdle
    /\ RagIdle
    /\ PathIdle
    /\ LoopIdle
    /\ FmtIdle
    /\ ProgIdle
    /\ session = "open"
    /\ caller_pc = "idle"
    /\ stage = 0

NextMain ==
    \/ \E n \in 1 .. 3 : StartBatch(n)
    \/ Submit
    \/ \E i \in Items : Start(i)
    \/ \E i \in Items : Work(i)
    \/ \E i \in Items : Check(i)
    \/ \E i \in Items : OpenFile(i)
    \/ \E i \in Items : OpenError(i)
    \/ \E i \in Items : WriteChunk(i)
    \/ \E i \in Items : StreamError(i)
    \/ \E i \in Items : WriteError(i)
    \/ \E i \in Items : Finish(i)
    \/ \E i \in Items : ExcRequest(i)
    \/ \E i \in Items : Remove(i)
    \/ \E i \in Items : Collect(i)
    \/ Return
    \/ Unwind
    \/ Close
    \/ Propagate

SpecMain == InitMain /\ [][NextMain]_vars

\* C27 (SpecMain): no batch of main() runs on a processor that an earlier
\* batch has closed.
C27_NoUseAfterClose == ~(caller_pc = "batch" /\ session = "closed")

====
